---- MODULE Spec2Model ----
(***************************************************************************)
(* A model of utztime/tztime.py: the immutable TZTime value (epoch seconds *)
(* plus an optional Timezone), its calendar arithmetic through the         *)
(* platform's mktime/localtime, its UTC/local conversion through the       *)
(* Timezone collaborator, its comparison operators and ISO-8601 output.    *)
(*                                                                         *)
(* The platform calendar is the proleptic Gregorian one with no host       *)
(* timezone (time.localtime == time.gmtime, as on MicroPython); the        *)
(* platform epoch year is 2000 or 1970, fixed when the module is imported. *)
(***************************************************************************)
EXTENDS Integers, Sequences, FiniteSets, TLC

VARIABLES
    _EPOCH_YEAR,   \* tztime.py:14  time.gmtime(0)[0], fixed at import
    x,             \* the TZTime instance under observation: [_time, _tz, _stime]
    last           \* the last call made: its name, arguments and outcome

vars == <<_EPOCH_YEAR, x, last>>

-----------------------------------------------------------------------------
(* Bounds *)

\* plus* deltas range over -MaxDelta..MaxDelta (plus a few far values)
MaxDelta == 2

-----------------------------------------------------------------------------
(* The platform calendar: time.mktime and time.localtime *)

\* days from 1970-01-01 to day doy (0-based, counted from 1 March) of year
\* yoe of the 400-year era
DaysOfEra(era, yoe, doy) ==
    era * 146097 + yoe * 365 + (yoe \div 4) - (yoe \div 100) + doy - 719468

\* yy is the year that begins on 1 March, mp the month counted from March
DaysFromMarch(yy, mp, d) ==
    DaysOfEra(yy \div 400, yy % 400, ((153 * mp + 2) \div 5) + d - 1)

\* days from 1970-01-01 to the civil date y-m-d (m in 1..12)
DaysFromCivil(y, m, d) ==
    DaysFromMarch(IF m <= 2 THEN y - 1 ELSE y, IF m > 2 THEN m - 3 ELSE m + 9, d)

\* days from 1970-01-01 to the platform epoch
EpochDays == DaysFromCivil(_EPOCH_YEAR, 1, 1)

\* time.mktime: seconds since the platform epoch of the six fields, any of
\* which may be out of range (it normalises them); may be negative
mktime(year, month, day, hour, min, sec) ==
    (DaysFromCivil(year + ((month - 1) \div 12), ((month - 1) % 12) + 1, 1)
        + (day - 1) - EpochDays) * 86400
    + hour * 3600 + min * 60 + sec

\* the civil date of day doy (0-based, from 1 March) of the March-year y0;
\* mp is its month counted from March
CivilOfMonth(y0, doy, mp) ==
    <<y0 + (IF mp < 10 THEN 0 ELSE 1),
      IF mp < 10 THEN mp + 3 ELSE mp - 9,
      doy - ((153 * mp + 2) \div 5) + 1>>

CivilOfDoy(y0, doy) == CivilOfMonth(y0, doy, (5 * doy + 2) \div 153)

CivilOfYoe(era, doe, yoe) ==
    CivilOfDoy(yoe + era * 400, doe - (365 * yoe + (yoe \div 4) - (yoe \div 100)))

CivilOfDoe(era, doe) ==
    CivilOfYoe(era, doe,
               (doe - (doe \div 1460) + (doe \div 36524) - (doe \div 146096)) \div 365)

\* <<year, month, day>> of the day z days after 0000-03-01
CivilOfEraDay(z) == CivilOfDoe(z \div 146097, z % 146097)

\* the tuple of the day `days` after 1970-01-01, whose date is ymd, and the
\* second `rem` of that day
LocalTuple(ymd, days, rem) ==
    <<ymd[1], ymd[2], ymd[3], rem \div 3600, (rem % 3600) \div 60, rem % 60,
      (days + 3) % 7, days - DaysFromCivil(ymd[1], 1, 1) + 1>>

LocalOfDay(days, rem) == LocalTuple(CivilOfEraDay(days + 719468), days, rem)

\* time.localtime: (year, month, day, hour, minute, second, weekday, yearday)
localtime(t) == LocalOfDay((t \div 86400) + EpochDays, t % 86400)

-----------------------------------------------------------------------------
(* The Timezone collaborator (utimezone.Timezone) *)

NoTz == "None"

TzNames == {"EST", "HALF", "ODD"}

\* _std.offset / _dst.offset are minutes east of UTC; a rule is the local
\* <<month, day, hour>> at which the change happens
TZ(name) ==
    CASE name = "EST"  -> [std |-> -300, dst |-> -240,
                           dstRule |-> <<3, 10, 2>>, stdRule |-> <<11, 3, 2>>]
      [] name = "HALF" -> [std |-> 30, dst |-> 90,
                           dstRule |-> <<10, 6, 2>>, stdRule |-> <<4, 7, 3>>]
      [] name = "ODD"  -> [std |-> -345, dst |-> -345,
                           dstRule |-> <<1, 1, 0>>, stdRule |-> <<1, 1, 0>>]

RuleTime(rule, year) == mktime(year, rule[1], rule[2], rule[3], 0, 0)

\* local seconds of the changes to daylight and to standard time in t's year
DstLoc(tz, t) == RuleTime(TZ(tz).dstRule, localtime(t)[1])
StdLoc(tz, t) == RuleTime(TZ(tz).stdRule, localtime(t)[1])
DstUTC(tz, t) == DstLoc(tz, t) - TZ(tz).std * 60
StdUTC(tz, t) == StdLoc(tz, t) - TZ(tz).dst * 60

InDst(t, dstT, stdT) ==
    IF stdT = dstT THEN FALSE
    ELSE IF stdT > dstT THEN t >= dstT /\ t < stdT
    ELSE ~(t >= stdT /\ t < dstT)

locIsDST(tz, local) == InDst(local, DstLoc(tz, local), StdLoc(tz, local))
utcIsDST(tz, utc) == InDst(utc, DstUTC(tz, utc), StdUTC(tz, utc))

Timezone_toLocal(tz, utc) ==
    IF utcIsDST(tz, utc) THEN utc + TZ(tz).dst * 60 ELSE utc + TZ(tz).std * 60

Timezone_toUTC(tz, local) ==
    IF locIsDST(tz, local) THEN local - TZ(tz).dst * 60 ELSE local - TZ(tz).std * 60

-----------------------------------------------------------------------------
(* tztime.py *)

NoStime == <<>>

\* max(a, b) of Python
Max(a, b) == IF a >= b THEN a ELSE b

\* variant of _mktime: the result is not floored at zero
_mktime_unclamped(year, month, day, hour, min, sec) ==
    mktime(Max(year, _EPOCH_YEAR), month, day, hour, min, sec)

_mktime(year, month, day, hour, min, sec) ==
    LET y == Max(year, _EPOCH_YEAR)
    IN  Max(0, mktime(y, month, day, hour, min, sec))

\* TZTime.__init__ with t given
TZTime(t, tz) == [_time |-> t, _tz |-> tz, _stime |-> NoStime]

\* variant of createOk: the floor year itself is refused
createOk_strict(year) == year > _EPOCH_YEAR

\* the year check of TZTime.create
createOk(year) == year >= _EPOCH_YEAR

create(year, month, day, hour, min, sec, tz) ==
    TZTime(_mktime(year, month, day, hour, min, sec), tz)

isDST(self) == IF self._tz = NoTz THEN FALSE ELSE locIsDST(self._tz, self._time)

isSTD(self) == ~isDST(self)

\* the tuple _gmtime returns
_gmtime(self) == IF self._stime = NoStime THEN localtime(self._time) ELSE self._stime

\* the receiver after _gmtime has run on it
_gmtime_store(self) == [self EXCEPT !._stime = _gmtime(self)]

toUTC(self) ==
    IF self._tz # NoTz THEN TZTime(Timezone_toUTC(self._tz, self._time), NoTz)
    ELSE TZTime(self._time, NoTz)

toTimezone(self, tz) ==
    LET z == toUTC(self)
    IN  IF tz # NoTz THEN TZTime(Timezone_toLocal(tz, z._time), tz) ELSE z

withTimezone(self, tz) == TZTime(self._time, tz)

\* isinstance(other, TZTime)
isTZTime(other) == other.cls = "TZTime"

__eq__(self, other) ==
    IF ~isTZTime(other) THEN FALSE
    ELSE toUTC(self)._time = toUTC(other.v)._time

\* variant of __ne__: a foreign value is "not equal"
__ne__foreignTrue(self, other) ==
    IF ~isTZTime(other) THEN TRUE
    ELSE toUTC(self)._time # toUTC(other.v)._time

__ne__(self, other) ==
    IF ~isTZTime(other) THEN FALSE
    ELSE toUTC(self)._time # toUTC(other.v)._time

\* variant of __gt__: the comparison is not strict
__gt__inclusive(self, other) ==
    IF ~isTZTime(other) THEN FALSE
    ELSE toUTC(self)._time >= toUTC(other.v)._time

__gt__(self, other) ==
    IF ~isTZTime(other) THEN FALSE
    ELSE toUTC(self)._time > toUTC(other.v)._time

__lt__(self, other) ==
    IF ~isTZTime(other) THEN FALSE
    ELSE toUTC(self)._time < toUTC(other.v)._time

__ge__(self, other) ==
    IF ~isTZTime(other) THEN FALSE
    ELSE toUTC(self)._time >= toUTC(other.v)._time

__le__(self, other) ==
    IF ~isTZTime(other) THEN FALSE
    ELSE toUTC(self)._time <= toUTC(other.v)._time

secondsBetween(self, other) == toUTC(other)._time - toUTC(self)._time

\* Python's int(a / b) for b > 0: the quotient truncated toward zero
TruncDiv(a, b) == IF a >= 0 THEN a \div b ELSE -((-a) \div b)

Abs(n) == IF n >= 0 THEN n ELSE -n

Digit(d) == <<"0", "1", "2", "3", "4", "5", "6", "7", "8", "9">>[d + 1]

RECURSIVE Digits(_)
Digits(n) == IF n < 10 THEN Digit(n) ELSE Digits(n \div 10) \o Digit(n % 10)

RECURSIVE NDigits(_)
NDigits(n) == IF n < 10 THEN 1 ELSE 1 + NDigits(n \div 10)

RECURSIVE Zeros(_)
Zeros(k) == IF k <= 0 THEN "" ELSE "0" \o Zeros(k - 1)

\* Python's f"{n:0wd}": sign first, then zeros up to width w, then the digits
Fmt(n, w) ==
    IF n >= 0 THEN Zeros(w - NDigits(n)) \o Digits(n)
    ELSE "-" \o Zeros(w - 1 - NDigits(-n)) \o Digits(-n)

\* the zone designator toISO8601 appends
tzstr(self) ==
    IF self._tz # NoTz THEN
        LET offset        == IF locIsDST(self._tz, self._time)
                             THEN TZ(self._tz).dst ELSE TZ(self._tz).std
            offsetHours   == TruncDiv(offset, 60)
            offsetMinutes == offset % 60
            offsetDir     == IF offsetHours > 0 THEN "+" ELSE "-"
        IN  offsetDir \o Fmt(Abs(offsetHours), 2) \o ":" \o Fmt(offsetMinutes, 2)
    ELSE "Z"

toISO8601(self) ==
    LET gm == _gmtime(self)
    IN  Fmt(gm[1], 4) \o "-" \o Fmt(gm[2], 2) \o "-" \o Fmt(gm[3], 2) \o "T"
        \o Fmt(gm[4], 2) \o ":" \o Fmt(gm[5], 2) \o ":" \o Fmt(gm[6], 2)
        \o tzstr(self)

plusYears(self, years) ==
    LET gm == _gmtime(self)
    IN  TZTime(_mktime(gm[1] + years, gm[2], gm[3], gm[4], gm[5], gm[6]), self._tz)

plusMonths(self, months) ==
    LET gm == _gmtime(self)
    IN  TZTime(_mktime(gm[1], gm[2] + months, gm[3], gm[4], gm[5], gm[6]), self._tz)

\* variant of plusDays: the delta lands on the month field
plusDays_onMonth(self, days) ==
    LET gm == _gmtime(self)
    IN  TZTime(_mktime(gm[1], gm[2] + days, gm[3], gm[4], gm[5], gm[6]), self._tz)

plusDays(self, days) ==
    LET gm == _gmtime(self)
    IN  TZTime(_mktime(gm[1], gm[2], gm[3] + days, gm[4], gm[5], gm[6]), self._tz)

plusHours(self, hours) ==
    LET gm == _gmtime(self)
    IN  TZTime(_mktime(gm[1], gm[2], gm[3], gm[4] + hours, gm[5], gm[6]), self._tz)

\* variant of plusMinutes: the delta lands on the second field
plusMinutes_onSecond(self, minutes) ==
    LET gm == _gmtime(self)
    IN  TZTime(_mktime(gm[1], gm[2], gm[3], gm[4], gm[5], gm[6] + minutes), self._tz)

plusMinutes(self, minutes) ==
    LET gm == _gmtime(self)
    IN  TZTime(_mktime(gm[1], gm[2], gm[3], gm[4], gm[5] + minutes, gm[6]), self._tz)

plusSeconds(self, seconds) ==
    LET gm == _gmtime(self)
    IN  TZTime(_mktime(gm[1], gm[2], gm[3], gm[4], gm[5], gm[6] + seconds), self._tz)

withYear(self, year) ==
    LET gm == _gmtime(self)
    IN  TZTime(_mktime(year, gm[2], gm[3], gm[4], gm[5], gm[6]), self._tz)

withMonth(self, month) ==
    LET gm == _gmtime(self)
    IN  TZTime(_mktime(gm[1], month, gm[3], gm[4], gm[5], gm[6]), self._tz)

withDay(self, day) ==
    LET gm == _gmtime(self)
    IN  TZTime(_mktime(gm[1], gm[2], day, gm[4], gm[5], gm[6]), self._tz)

withHour(self, hour) ==
    LET gm == _gmtime(self)
    IN  TZTime(_mktime(gm[1], gm[2], gm[3], hour, gm[5], gm[6]), self._tz)

withMinute(self, minute) ==
    LET gm == _gmtime(self)
    IN  TZTime(_mktime(gm[1], gm[2], gm[3], gm[4], minute, gm[6]), self._tz)

withSecond(self, second) ==
    LET gm == _gmtime(self)
    IN  TZTime(_mktime(gm[1], gm[2], gm[3], gm[4], gm[5], second), self._tz)

-----------------------------------------------------------------------------
(* Inputs *)

TzOrNone == TzNames \cup {NoTz}

EpochYears == {1970, 2000}

\* arguments handed to create(): ordinary dates, the local and UTC times
\* around the Timezones' changes, the platform floor, out-of-range fields
\* and the defaults
CreateArgs ==
    { <<2024, 1, 31, 0, 0, 0, NoTz>>,     <<2024, 1, 1, 23, 0, 0, NoTz>>,
      <<2024, 3, 15, 10, 30, 0, NoTz>>,   <<2024, 3, 15, 10, 30, 0, "EST">>,
      <<2024, 3, 10, 2, 30, 0, "EST">>,   <<2024, 11, 3, 1, 30, 0, "EST">>,
      <<2024, 11, 3, 6, 30, 0, NoTz>>,    <<2024, 4, 7, 2, 0, 0, NoTz>>,
      <<2024, 6, 15, 12, 0, 0, "HALF">>,  <<2024, 10, 6, 2, 30, 0, "HALF">>,
      <<2024, 6, 15, 12, 0, 0, "ODD">>,   <<2024, 13, 32, 25, 61, 61, NoTz>>,
      <<2000, 1, 15, 0, 0, 0, "EST">>,    <<1970, 1, 1, 0, 0, 0, NoTz>>,
      <<1999, 12, 31, 23, 59, 59, NoTz>>, <<1969, 1, 1, 0, 0, 0, NoTz>>,
      <<0, 0, 0, 0, 0, 0, NoTz>>,
      <<2024, 3, 10, 1, 59, 59, "EST">>,  <<2024, 3, 10, 3, 0, 0, "EST">>,
      <<2024, 11, 3, 2, 0, 0, "EST">>,    <<2024, 11, 3, 5, 30, 0, NoTz>>,
      <<2024, 3, 10, 7, 0, 0, NoTz>>,     <<2024, 2, 29, 12, 0, 0, NoTz>>,
      <<2024, 12, 31, 23, 59, 59, "ODD">> }

\* <<t, tz>> handed to the constructor
ConstructArgs == { <<-18000, NoTz>>, <<-1, "ODD">>, <<59, "HALF">> }

\* what the system clock reads when the constructor gets no t
ClockValues == {86461}

Deltas == -MaxDelta .. MaxDelta

YearDeltas   == Deltas \cup {-30}
MonthDeltas  == Deltas \cup {13}
DayDeltas    == Deltas \cup {31}
HourDeltas   == Deltas \cup {-25}
MinuteDeltas == Deltas \cup {61}
SecondDeltas == Deltas \cup {-61}

YearValues   == {1969, 1999, 2025}
MonthValues  == {0, 12, 13}
DayValues    == {0, 31, 32}
HourValues   == {-1, 23, 25}
MinuteValues == {-1, 0, 60}
SecondValues == {-1, 59, 61}

\* the right-hand operand of a comparison: a TZTime or a foreign value
Inst(v) == [cls |-> "TZTime", v |-> v]
Foreign(cls) == [cls |-> cls, v |-> TZTime(0, NoTz)]

OtherInstants ==
    { Inst(create(f[1], f[2], f[3], f[4], f[5], f[6], tz)) :
        f \in { <<2024, 3, 15, 10, 30, 0>>, <<2024, 3, 15, 14, 30, 0>> },
        tz \in {NoTz} }
    \cup { Inst(create(2024, 11, 3, 1, 30, 0, "EST")),
           Inst(create(2024, 6, 15, 12, 0, 0, "HALF")) }

Foreigns == { Foreign("int"), Foreign("NoneType") }

Others == OtherInstants \cup Foreigns

-----------------------------------------------------------------------------
(* The state machine *)

NoCall ==
    [ op    |-> "import",            \* the method called
      n     |-> 0,                   \* its integer argument
      f     |-> <<>>,                \* its calendar fields and tz (create)
      tz    |-> NoTz,                \* its Timezone argument
      other |-> Foreign("NoneType"), \* its TZTime / foreign argument
      rInst |-> TZTime(0, NoTz),     \* the TZTime it returned
      rBool |-> FALSE,               \* the bool it returned
      rInt  |-> 0,                   \* the int it returned
      rStr  |-> "",                  \* the str it returned
      err   |-> "none" ]             \* the exception it ended in

Call(op) == [NoCall EXCEPT !.op = op]

Init ==
    /\ _EPOCH_YEAR \in EpochYears
    /\ x = TZTime(0, NoTz)
    /\ last = NoCall

\* TZTime(t, tz), t an int; TZTime(tz=tz) reads the clock; a t that is not an
\* int fails the assertion
Construct ==
    \/ \E a \in ConstructArgs :
         /\ x' = TZTime(a[1], a[2])
         /\ last' = [Call("__init__") EXCEPT !.n = a[1], !.tz = a[2],
                                             !.rInst = TZTime(a[1], a[2])]
         /\ UNCHANGED _EPOCH_YEAR
    \/ \E clock \in ClockValues, tz \in {NoTz, "EST"} :
         /\ x' = TZTime(clock, tz)
         /\ last' = [Call("__init__") EXCEPT !.tz = tz, !.rInst = TZTime(clock, tz)]
         /\ UNCHANGED _EPOCH_YEAR
    \/ /\ last' = [Call("__init__") EXCEPT !.err = "AssertionError"]
       /\ UNCHANGED <<x, _EPOCH_YEAR>>

Now ==
    \E clock \in ClockValues :
      /\ x' = TZTime(clock, NoTz)
      /\ last' = [Call("now") EXCEPT !.rInst = TZTime(clock, NoTz)]
      /\ UNCHANGED _EPOCH_YEAR

Create ==
    \E f \in CreateArgs :
      /\ IF createOk(f[1])
         THEN LET r == create(f[1], f[2], f[3], f[4], f[5], f[6], f[7])
              IN  /\ x' = r
                  /\ last' = [Call("create") EXCEPT !.f = f, !.tz = f[7], !.rInst = r]
         ELSE /\ x' = x
              /\ last' = [Call("create") EXCEPT !.f = f, !.tz = f[7],
                                                !.err = "AssertionError"]
      /\ UNCHANGED _EPOCH_YEAR

IsDST ==
    /\ last' = [Call("isDST") EXCEPT !.rBool = isDST(x)]
    /\ UNCHANGED <<x, _EPOCH_YEAR>>

IsSTD ==
    /\ last' = [Call("isSTD") EXCEPT !.rBool = isSTD(x)]
    /\ UNCHANGED <<x, _EPOCH_YEAR>>

Eq ==
    \E other \in Others :
      /\ last' = [Call("__eq__") EXCEPT !.other = other, !.rBool = __eq__(x, other)]
      /\ UNCHANGED <<x, _EPOCH_YEAR>>

Ne ==
    \E other \in Others :
      /\ last' = [Call("__ne__") EXCEPT !.other = other, !.rBool = __ne__(x, other)]
      /\ UNCHANGED <<x, _EPOCH_YEAR>>

Gt ==
    \E other \in Others :
      /\ last' = [Call("__gt__") EXCEPT !.other = other, !.rBool = __gt__(x, other)]
      /\ UNCHANGED <<x, _EPOCH_YEAR>>

Lt ==
    \E other \in Others :
      /\ last' = [Call("__lt__") EXCEPT !.other = other, !.rBool = __lt__(x, other)]
      /\ UNCHANGED <<x, _EPOCH_YEAR>>

Ge ==
    \E other \in Others :
      /\ last' = [Call("__ge__") EXCEPT !.other = other, !.rBool = __ge__(x, other)]
      /\ UNCHANGED <<x, _EPOCH_YEAR>>

Le ==
    \E other \in Others :
      /\ last' = [Call("__le__") EXCEPT !.other = other, !.rBool = __le__(x, other)]
      /\ UNCHANGED <<x, _EPOCH_YEAR>>

\* __str__, __repr__ and toISO8601 itself
ToISO8601 ==
    \E op \in {"toISO8601", "__str__", "__repr__"} :
      /\ x' = _gmtime_store(x)
      /\ last' = [Call(op) EXCEPT !.rStr = toISO8601(x)]
      /\ UNCHANGED _EPOCH_YEAR

\* year(), month(), day(), hour(), minute(), second(), dayOfWeek()
FieldNames == <<"year", "month", "day", "hour", "minute", "second", "dayOfWeek">>

ReadField ==
    \E i \in 1 .. 7 :
      /\ x' = _gmtime_store(x)
      /\ last' = [Call(FieldNames[i]) EXCEPT !.rInt = _gmtime(x)[i]]
      /\ UNCHANGED _EPOCH_YEAR

Time ==
    /\ last' = [Call("time") EXCEPT !.rInt = x._time]
    /\ UNCHANGED <<x, _EPOCH_YEAR>>

Tz ==
    /\ last' = [Call("tz") EXCEPT !.tz = x._tz]
    /\ UNCHANGED <<x, _EPOCH_YEAR>>

ToTimezone ==
    \E tz \in TzOrNone :
      /\ last' = [Call("toTimezone") EXCEPT !.tz = tz, !.rInst = toTimezone(x, tz)]
      /\ UNCHANGED <<x, _EPOCH_YEAR>>

ToUTC ==
    /\ last' = [Call("toUTC") EXCEPT !.rInst = toUTC(x)]
    /\ UNCHANGED <<x, _EPOCH_YEAR>>

SecondsBetween ==
    \E other \in OtherInstants :
      /\ last' = [Call("secondsBetween") EXCEPT !.other = other,
                                                !.rInt = secondsBetween(x, other.v)]
      /\ UNCHANGED <<x, _EPOCH_YEAR>>

WithTimezone ==
    \E tz \in TzOrNone :
      /\ last' = [Call("withTimezone") EXCEPT !.tz = tz, !.rInst = withTimezone(x, tz)]
      /\ UNCHANGED <<x, _EPOCH_YEAR>>

\* variant of Arith: the receiver itself takes the new value
Arith_inplace(op, n, r) ==
    /\ x' = [r EXCEPT !._stime = localtime(r._time)]
    /\ last' = [Call(op) EXCEPT !.n = n, !.rInst = r]
    /\ UNCHANGED _EPOCH_YEAR

\* a plus* / with* call: the receiver's cache is filled, the result returned
Arith(op, n, r) ==
    /\ x' = _gmtime_store(x)
    /\ last' = [Call(op) EXCEPT !.n = n, !.rInst = r]
    /\ UNCHANGED _EPOCH_YEAR

PlusYears   == \E n \in YearDeltas   : Arith("plusYears", n, plusYears(x, n))
PlusMonths  == \E n \in MonthDeltas  : Arith("plusMonths", n, plusMonths(x, n))
PlusDays    == \E n \in DayDeltas    : Arith("plusDays", n, plusDays(x, n))
PlusHours   == \E n \in HourDeltas   : Arith("plusHours", n, plusHours(x, n))
PlusMinutes == \E n \in MinuteDeltas : Arith("plusMinutes", n, plusMinutes(x, n))
PlusSeconds == \E n \in SecondDeltas : Arith("plusSeconds", n, plusSeconds(x, n))
WithYear    == \E n \in YearValues   : Arith("withYear", n, withYear(x, n))
WithMonth   == \E n \in MonthValues  : Arith("withMonth", n, withMonth(x, n))
WithDay     == \E n \in DayValues    : Arith("withDay", n, withDay(x, n))
WithHour    == \E n \in HourValues   : Arith("withHour", n, withHour(x, n))
WithMinute  == \E n \in MinuteValues : Arith("withMinute", n, withMinute(x, n))
WithSecond  == \E n \in SecondValues : Arith("withSecond", n, withSecond(x, n))

Next ==
    \/ Construct \/ Now \/ Create
    \/ IsDST \/ IsSTD
    \/ Eq \/ Ne \/ Gt \/ Lt \/ Ge \/ Le
    \/ ToISO8601 \/ ReadField \/ Time \/ Tz
    \/ ToTimezone \/ ToUTC \/ SecondsBetween \/ WithTimezone
    \/ PlusYears \/ PlusMonths \/ PlusDays \/ PlusHours \/ PlusMinutes \/ PlusSeconds
    \/ WithYear \/ WithMonth \/ WithDay \/ WithHour \/ WithMinute \/ WithSecond

Spec == Init /\ [][Next]_vars

-----------------------------------------------------------------------------
(* Vocabulary of the properties *)

CmpOps == {"__eq__", "__ne__", "__gt__", "__lt__", "__ge__", "__le__"}

PlusOps == {"plusYears", "plusMonths", "plusDays", "plusHours", "plusMinutes",
            "plusSeconds"}

WithOps == {"withYear", "withMonth", "withDay", "withHour", "withMinute",
            "withSecond"}

ConstructOps == {"__init__", "create", "now"}

\* the calls whose result is a duration in raw seconds
DurationOps == {"plusHours", "plusMinutes", "plusSeconds"}

\* the calls that carry an overflowing day, hour or month
CarryOps == {"plusMonths", "plusDays", "plusHours", "withMonth", "withDay",
             "withHour"}

\* the six calendar fields a fresh read of inst gives
Fields6(inst) == SubSeq(localtime(inst._time), 1, 6)

\* the six fields a plus* / with* call asks for, before any normalisation
Requested(op, gm, n) ==
    CASE op = "plusYears"   -> <<gm[1] + n, gm[2], gm[3], gm[4], gm[5], gm[6]>>
      [] op = "plusMonths"  -> <<gm[1], gm[2] + n, gm[3], gm[4], gm[5], gm[6]>>
      [] op = "plusDays"    -> <<gm[1], gm[2], gm[3] + n, gm[4], gm[5], gm[6]>>
      [] op = "plusHours"   -> <<gm[1], gm[2], gm[3], gm[4] + n, gm[5], gm[6]>>
      [] op = "plusMinutes" -> <<gm[1], gm[2], gm[3], gm[4], gm[5] + n, gm[6]>>
      [] op = "plusSeconds" -> <<gm[1], gm[2], gm[3], gm[4], gm[5], gm[6] + n>>
      [] op = "withYear"    -> <<n, gm[2], gm[3], gm[4], gm[5], gm[6]>>
      [] op = "withMonth"   -> <<gm[1], n, gm[3], gm[4], gm[5], gm[6]>>
      [] op = "withDay"     -> <<gm[1], gm[2], n, gm[4], gm[5], gm[6]>>
      [] op = "withHour"    -> <<gm[1], gm[2], gm[3], n, gm[5], gm[6]>>
      [] op = "withMinute"  -> <<gm[1], gm[2], gm[3], gm[4], n, gm[6]>>
      [] op = "withSecond"  -> <<gm[1], gm[2], gm[3], gm[4], gm[5], n>>

IsLeap(y) == (y % 4 = 0 /\ y % 100 # 0) \/ y % 400 = 0

DaysInMonth(y, m) ==
    IF m = 2 THEN (IF IsLeap(y) THEN 29 ELSE 28)
    ELSE IF m \in {4, 6, 9, 11} THEN 30 ELSE 31

\* carry a day outside its month into the months (and years) around it
RECURSIVE DayCarry(_, _, _)
DayCarry(y, m, d) ==
    IF d > DaysInMonth(y, m)
    THEN IF m = 12 THEN DayCarry(y + 1, 1, d - DaysInMonth(y, m))
         ELSE DayCarry(y, m + 1, d - DaysInMonth(y, m))
    ELSE IF d < 1
    THEN IF m = 1 THEN DayCarry(y - 1, 12, d + DaysInMonth(y - 1, 12))
         ELSE DayCarry(y, m - 1, d + DaysInMonth(y, m - 1))
    ELSE <<y, m, d>>

\* calendar normalisation by carrying: seconds into minutes, minutes into
\* hours, hours into days, months into years, days into months
Carry(f) ==
    LET mi1 == f[5] + (f[6] \div 60)
        h1  == f[4] + (mi1 \div 60)
        y1  == f[1] + ((f[2] - 1) \div 12)
        m1  == ((f[2] - 1) % 12) + 1
        ymd == DayCarry(y1, m1, f[3] + (h1 \div 24))
    IN  <<ymd[1], ymd[2], ymd[3], h1 % 24, mi1 % 60, f[6] % 60>>

-----------------------------------------------------------------------------
(* Properties *)

\* C1: for every Instant x and Timezone tz, x.toTimezone(tz).toUTC() has the
\* epochSeconds of x.toUTC(), also at and around tz's DST changes
C1_RoundTrip ==
    (last.op = "toTimezone" /\ last.tz # NoTz)
        => toUTC(last.rInst)._time = toUTC(x)._time

\* C2: for two Instants a and b, whatever their Timezones, exactly one of
\* a<b, a==b, a>b is true, each decided on the UTC-normalised epochSeconds
C2_Trichotomy ==
    (last.op \in CmpOps /\ isTZTime(last.other)) =>
        LET a  == toUTC(x)._time
            b  == toUTC(last.other.v)._time
            lt == __lt__(x, last.other)
            eq == __eq__(x, last.other)
            gt == __gt__(x, last.other)
        IN  /\ Cardinality({i \in 1 .. 3 : <<lt, eq, gt>>[i]}) = 1
            /\ lt = (a < b) /\ eq = (a = b) /\ gt = (a > b)
            /\ last.rBool = CASE last.op = "__eq__" -> (a = b)
                              [] last.op = "__ne__" -> (a # b)
                              [] last.op = "__gt__" -> (a > b)
                              [] last.op = "__lt__" -> (a < b)
                              [] last.op = "__ge__" -> (a >= b)
                              [] last.op = "__le__" -> (a <= b)

\* two equal instants carried in different Timezones were compared
C2_Witness ==
    /\ last.op = "__eq__" /\ isTZTime(last.other)
    /\ last.rBool
    /\ x._tz # last.other.v._tz
    /\ x._time # last.other.v._time

\* C3: each of the six comparison operators returns false against a value
\* that is not an Instant, and none of them ends in an error
C3_ForeignFalse ==
    (last.op \in CmpOps /\ ~isTZTime(last.other)) =>
        (last.rBool = FALSE /\ last.err = "none")

C3_Witness ==
    last.op = "__ne__" /\ last.other.cls = "int" /\ last.rBool = FALSE

\* C4: no call on an Instant x changes x's epochSeconds, x's Timezone or a
\* calendar field read from x; a mutator's result is a new Instant
C4_Frame ==
    [][ (last'.op \notin ConstructOps) =>
            /\ x'._time = x._time
            /\ x'._tz = x._tz
            /\ _gmtime(x') = _gmtime(x)
            /\ (last'.op \in PlusOps \cup WithOps =>
                    last'.rInst = TZTime(last'.rInst._time, x._tz)) ]_vars

\* a plus* call returned another instant and left its receiver, whose fields
\* are now cached, where it was
C4_Witness ==
    /\ last.op = "plusDays"
    /\ x._stime # NoStime
    /\ last.rInst._time # x._time

\* C5 as stated: plus* / with* return the calendar normalisation of the six
\* fields with only the targeted field changed, for every x and every n
C5_Original ==
    (last.op \in CarryOps) =>
        Fields6(last.rInst) = Carry(Requested(last.op, _gmtime(x), last.n))

\* C5 as amended: the requested year is first raised to the platform floor
\* year if below it, the six fields are normalised by carrying, and a result
\* before the platform epoch is the epoch itself
C5_Normalized ==
    (last.op \in CarryOps) =>
        LET f == Requested(last.op, _gmtime(x), last.n)
            c == Carry([f EXCEPT ![1] = Max(f[1], _EPOCH_YEAR)])
        IN  /\ IF c[1] < _EPOCH_YEAR THEN last.rInst._time = 0
               ELSE Fields6(last.rInst) = c
            /\ last.rInst._tz = x._tz

\* create(2024,1,31).plusDays(1) is 2024-02-01
C5_Witness ==
    /\ last.op = "plusDays" /\ last.n = 1
    /\ SubSeq(_gmtime(x), 1, 6) = <<2024, 1, 31, 0, 0, 0>>
    /\ Fields6(last.rInst) = <<2024, 2, 1, 0, 0, 0>>

\* C6: create with a year below the platform floor fails and returns no
\* Instant; with a year at or above the floor it returns an Instant
C6_CreateFloor ==
    (last.op = "create") =>
        IF last.f[1] < _EPOCH_YEAR
        THEN last.err # "none" /\ last.rInst = NoCall.rInst
        ELSE /\ last.err = "none"
             /\ last.rInst = x
             /\ x = TZTime(Max(0, mktime(last.f[1], last.f[2], last.f[3],
                                         last.f[4], last.f[5], last.f[6])), last.tz)

\* create(year=1999, ...) failed on the platform whose floor is 2000
C6_Witness ==
    /\ last.op = "create" /\ last.f[1] = 1999 /\ _EPOCH_YEAR = 2000
    /\ last.err # "none"

\* C7: no plus* / with* call ends in an error; a year below the floor is
\* raised to the floor, a result below zero is zero: epochSeconds >= 0
C7_NeverFails ==
    (last.op \in PlusOps \cup WithOps) =>
        LET f   == Requested(last.op, _gmtime(x), last.n)
            raw == mktime(Max(f[1], _EPOCH_YEAR), f[2], f[3], f[4], f[5], f[6])
        IN  /\ last.err = "none"
            /\ last.rInst._time >= 0
            /\ last.rInst._time = (IF raw < 0 THEN 0 ELSE raw)

\* withYear below the floor returned an Instant in the floor year
C7_Witness ==
    /\ last.op = "withYear" /\ last.n < _EPOCH_YEAR
    /\ last.err = "none"
    /\ last.rInst._time > 0
    /\ Fields6(last.rInst)[1] = _EPOCH_YEAR

\* the suffix C8 states for an offset of o minutes
Suffix(o) ==
    (IF o > 0 THEN "+" ELSE "-") \o Fmt(Abs(o) \div 60, 2) \o ":" \o Fmt(Abs(o) % 60, 2)

\* C8: toISO8601() ends with "Z" without a Timezone, else with the sign of
\* the applicable offset o, |o| div 60 in two digits, ":" and |o| mod 60
C8_Suffix ==
    (last.op = "toISO8601") =>
        LET gm   == _gmtime(x)
            date == Fmt(gm[1], 4) \o "-" \o Fmt(gm[2], 2) \o "-" \o Fmt(gm[3], 2)
                    \o "T" \o Fmt(gm[4], 2) \o ":" \o Fmt(gm[5], 2) \o ":"
                    \o Fmt(gm[6], 2)
            o    == IF isDST(x) THEN TZ(x._tz).dst ELSE TZ(x._tz).std
        IN  last.rStr = date \o (IF x._tz = NoTz THEN "Z" ELSE Suffix(o))

\* C9: x.toTimezone(tz), tz the Timezone x carries, has x's epochSeconds and
\* carries tz, also inside the spring-forward gap and the fall-back overlap
C9_SameZoneNoOp ==
    (last.op = "toTimezone" /\ last.tz # NoTz /\ last.tz = x._tz) =>
        (last.rInst._time = x._time /\ last.rInst._tz = x._tz)

\* seconds in the unit a duration call counts in
UnitSeconds(op) ==
    CASE op = "plusHours" -> 3600 [] op = "plusMinutes" -> 60 [] op = "plusSeconds" -> 1

\* C10 as stated: plusSeconds/plusMinutes/plusHours add n units of raw
\* seconds to x.time() for every x and every n, and keep x's Timezone
C10_Original ==
    (last.op \in DurationOps) =>
        /\ last.rInst._time = x._time + UnitSeconds(last.op) * last.n
        /\ last.rInst._tz = x._tz

\* C10 as amended: for x at or after the platform epoch the result is
\* x.time() plus n units, or zero when that sum is negative
C10_Duration ==
    (last.op \in DurationOps /\ x._time >= 0) =>
        /\ last.rInst._time = Max(0, x._time + UnitSeconds(last.op) * last.n)
        /\ last.rInst._tz = x._tz

\* plusHours crossed midnight: create(2024,1,1,23).plusHours(2) is day 2, hour 1
C10_Witness ==
    /\ last.op = "plusHours" /\ last.n = 2
    /\ SubSeq(_gmtime(x), 1, 6) = <<2024, 1, 1, 23, 0, 0>>
    /\ Fields6(last.rInst) = <<2024, 1, 2, 1, 0, 0>>
    /\ last.rInst._time = x._time + 7200

====
